---- MODULE Spec2Model ----
(***************************************************************************)
(* PDF Trimmer (src/main.py): the per-page trim state kept by PDFTrimApp   *)
(* and PagePreviewWidget, the Load / page selection / edit / export        *)
(* handlers, and the crop-box computation of export_pdf.                   *)
(*                                                                         *)
(* Numbers.  A spin box value and a mediabox coordinate are decimals with  *)
(* two places; the model keeps them as integers counting hundredths        *)
(* ("centi").  export_pdf converts them with float() and computes in       *)
(* IEEE-754 binary64, so the crop computation is modelled in binary64 too: *)
(* a float is a record [s, m, e] of value (-1)^s * m * 2^e whose mantissa  *)
(* m is a natural number of at most Precision bits, held as a sequence of  *)
(* limbs (TLC's integers have 32 bits).  Every operation rounds to nearest,*)
(* ties to even, as the hardware does.  Overflow, subnormals, NaN and the  *)
(* sign of zero are not modelled: page coordinates are far from them.      *)
(*                                                                         *)
(* Handlers.  Each action is one whole handler run on the GUI thread.  The *)
(* path field and the Start/End spin boxes are read only by Load, so they  *)
(* are inputs of that action.  The zoom spin box, the rendering of the     *)
(* preview and the clipboard change none of the state below and are left   *)
(* out.  An exception raised inside the try blocks of load_pdf_and_pages   *)
(* and export_pdf is caught there; page_selected has no try block, so an   *)
(* exception raised by render_page leaves the slot and ends the process.   *)
(*                                                                         *)
(* Two variables are observations, not fields of the program: `last` names *)
(* the handler that ran last and how it ended (the message box it showed), *)
(* and `edited` is a history variable recording the pair the user last     *)
(* gave each page of the range.                                            *)
(***************************************************************************)
EXTENDS Integers, Sequences, FiniteSets, TLC

(***************************************************************************)
(* Natural numbers of any size: little-endian sequences of limbs in        *)
(* 0..Base-1 without high zero limbs; <<>> is zero.                        *)
(***************************************************************************)
LimbBits == 14
Base == 2^LimbBits

RECURSIVE BNorm(_)
BNorm(a) ==
  IF a = <<>> THEN <<>>
  ELSE IF a[Len(a)] = 0 THEN BNorm(SubSeq(a, 1, Len(a) - 1)) ELSE a

RECURSIVE BFromNat(_)
BFromNat(n) == IF n = 0 THEN <<>> ELSE <<n % Base>> \o BFromNat(n \div Base)

Limb(a, i) == IF i <= Len(a) THEN a[i] ELSE 0

Rest(a) == IF a = <<>> THEN <<>> ELSE Tail(a)

RECURSIVE BAddC(_, _, _)
BAddC(a, b, c) ==
  IF a = <<>> /\ b = <<>> THEN (IF c = 0 THEN <<>> ELSE <<c>>)
  ELSE LET s == Limb(a, 1) + Limb(b, 1) + c
       IN  <<s % Base>> \o BAddC(Rest(a), Rest(b), s \div Base)

BAdd(a, b) == BAddC(a, b, 0)

\* a - b for a >= b
RECURSIVE BSubC(_, _, _)
BSubC(a, b, br) ==
  IF a = <<>> THEN <<>>
  ELSE LET d == a[1] - Limb(b, 1) - br
       IN  <<IF d < 0 THEN d + Base ELSE d>>
             \o BSubC(Tail(a), Rest(b), IF d < 0 THEN 1 ELSE 0)

BSub(a, b) == BNorm(BSubC(a, b, 0))

RECURSIVE BCmpAt(_, _, _)
BCmpAt(a, b, i) ==
  IF i = 0 THEN 0
  ELSE IF a[i] > b[i] THEN 1
  ELSE IF a[i] < b[i] THEN -1
  ELSE BCmpAt(a, b, i - 1)

\* -1, 0 or 1 as a < b, a = b, a > b
BCmp(a, b) ==
  IF Len(a) > Len(b) THEN 1
  ELSE IF Len(a) < Len(b) THEN -1
  ELSE BCmpAt(a, b, Len(a))

\* a * k for a small k (k < 2^16)
RECURSIVE BMulSmallC(_, _, _)
BMulSmallC(a, k, c) ==
  IF a = <<>> THEN BFromNat(c)
  ELSE LET p == a[1] * k + c
       IN  <<p % Base>> \o BMulSmallC(Tail(a), k, p \div Base)

BMulSmall(a, k) == IF k = 0 THEN <<>> ELSE BMulSmallC(a, k, 0)

BShlLimbs(a, n) == IF a = <<>> THEN <<>> ELSE [i \in 1..n |-> 0] \o a

RECURSIVE BMul(_, _)
BMul(a, b) ==
  IF b = <<>> THEN <<>>
  ELSE BAdd(BMulSmall(a, b[1]), BShlLimbs(BMul(a, Tail(b)), 1))

\* quotient and remainder of limbs 1..i of a (with rem on top) by a small d
RECURSIVE BDivRemAt(_, _, _, _)
BDivRemAt(a, d, i, rem) ==
  IF i = 0 THEN [q |-> <<>>, r |-> rem]
  ELSE LET cur  == rem * Base + a[i]
           rest == BDivRemAt(a, d, i - 1, cur % d)
       IN  [q |-> Append(rest.q, cur \div d), r |-> rest.r]

BDivRem(a, d) ==
  LET x == BDivRemAt(a, d, Len(a), 0) IN [q |-> BNorm(x.q), r |-> x.r]

RECURSIVE NatBitLen(_)
NatBitLen(n) == IF n = 0 THEN 0 ELSE 1 + NatBitLen(n \div 2)

BBitLen(a) ==
  IF a = <<>> THEN 0 ELSE LimbBits * (Len(a) - 1) + NatBitLen(a[Len(a)])

BShl(a, n) == BShlLimbs(BMulSmall(a, 2^(n % LimbBits)), n \div LimbBits)

\* floor(a / 2^n)
BShr(a, n) ==
  LET k == n \div LimbBits
  IN  IF k >= Len(a) THEN <<>>
      ELSE BDivRem(SubSeq(a, k + 1, Len(a)), 2^(n % LimbBits)).q

BOdd(a) == a # <<>> /\ a[1] % 2 = 1

\* a / 2^n rounded to the nearest integer, ties to even (n >= 1)
BRoundShr(a, n) ==
  LET q == BShr(a, n)
      r == BSub(a, BShl(q, n))
      c == BCmp(r, BShl(<<1>>, n - 1))
  IN  IF c > 0 \/ (c = 0 /\ BOdd(q)) THEN BAdd(q, <<1>>) ELSE q

(***************************************************************************)
(* binary64.  The canonical form of a float has an odd mantissa (zero is   *)
(* FZero), so two floats are equal as records iff they are equal as        *)
(* numbers.                                                                *)
(***************************************************************************)
Precision == 53

FZero == [s |-> 0, m |-> <<>>, e |-> 0]

RECURSIVE FCanon(_, _, _)
FCanon(s, m, e) ==
  IF m = <<>> THEN FZero
  ELSE IF m[1] = 0 THEN FCanon(s, Tail(m), e + LimbBits)
  ELSE IF m[1] % 2 = 0 THEN FCanon(s, BShr(m, 1), e + 1)
  ELSE [s |-> s, m |-> m, e |-> e]

\* the float nearest to (-1)^s * m * 2^e
FRound(s, m, e) ==
  LET n == BBitLen(m) - Precision
  IN  IF n <= 0 THEN FCanon(s, m, e) ELSE FCanon(s, BRoundShr(m, n), e + n)

\* float(k) of an integer k
FInt(k) ==
  IF k < 0 THEN FCanon(1, BFromNat(-k), 0) ELSE FCanon(0, BFromNat(k), 0)

FNeg(a) == IF a.m = <<>> THEN a ELSE [a EXCEPT !.s = 1 - a.s]

FAdd(a, b) ==
  IF a.m = <<>> THEN b
  ELSE IF b.m = <<>> THEN a
  ELSE LET e  == IF a.e < b.e THEN a.e ELSE b.e
           ma == BShl(a.m, a.e - e)
           mb == BShl(b.m, b.e - e)
           c  == BCmp(ma, mb)
       IN  IF a.s = b.s THEN FRound(a.s, BAdd(ma, mb), e)
           ELSE IF c = 0 THEN FZero
           ELSE IF c > 0 THEN FRound(a.s, BSub(ma, mb), e)
           ELSE FRound(b.s, BSub(mb, ma), e)

FSub(a, b) == FAdd(a, FNeg(b))

FMul(a, b) ==
  FRound(IF a.s = b.s THEN 0 ELSE 1, BMul(a.m, b.m), a.e + b.e)

\* a / float(d) for a small positive integer d: the quotient is taken to more
\* than Precision + 2 bits and a sticky bit records a remainder
FDivSmall(a, d) ==
  IF a.m = <<>> THEN FZero
  ELSE LET k  == 6 * LimbBits
           x  == BDivRem(BShl(a.m, k), d)
           m2 == BAdd(BMulSmall(x.q, 2), IF x.r # 0 THEN <<1>> ELSE <<>>)
       IN  FRound(a.s, m2, a.e - k - 1)

\* a <= b
FLe(a, b) == FSub(b, a).s = 0

\* float of the decimal c/100: a spin box value, a mediabox coordinate
FromCenti(c) == FDivSmall(FInt(c), 100)

(***************************************************************************)
(* The files the user can name in the path field.  A.pdf and B.pdf are     *)
(* well-formed documents of different length; corrupt.pdf exists but       *)
(* fitz.open raises on it; missing.pdf does not exist.                     *)
(***************************************************************************)
Paths == {"A.pdf", "B.pdf", "corrupt.pdf", "missing.pdf"}

\* None, for self.doc, self.pdf_path and the preview widget's doc
NoDoc == "None"

\* os.path.exists(path)
Exists(path) == path # "missing.pdf"

\* fitz.open(path) returns a document (it raises otherwise)
Opens(path) == path \in {"A.pdf", "B.pdf"}

\* len(self.doc), len(pdf.pages)
PageCount(path) == IF path = "A.pdf" THEN 3 ELSE 2

\* page.mediabox of page p, in hundredths of a point: <<x0, y0, x1, y1>>
MediaBox(path, p) ==
  IF path = "A.pdf" THEN <<0, 0, 10000, 20000>> ELSE <<0, 0, 61200, 79200>>

\* the largest value the Start Page / End Page spin boxes take in the model
\* (the program's maximum is 999999)
MaxSpin == 3

\* the values the user gives a cut spin box, in hundredths of a percent
UserPcts == {0, 1000}

\* self.current_page = None
NoPage == -1

\* top_cut_spin.setRange(0, 99.9), in hundredths of a percent
SpinMax == 9990

\* QDoubleSpinBox.setValue: the value is bounded to the range
SetValue(v) == IF v < 0 THEN 0 ELSE IF v > SpinMax THEN SpinMax ELSE v

\* dict.get that never finds the key: the default is what a page loads
Get_IgnoresStore(d, k, default) == default

\* dict.get(k, default)
Get(d, k, default) == IF k \in DOMAIN d THEN d[k] ELSE default

\* d[k] = v on a dict: the key is created when absent
Put(d, k, v) == [x \in DOMAIN d \cup {k} |-> IF x = k THEN v ELSE d[x]]

\* list(range(start, end + 1))
RangeList(start, end) == [i \in 1..(end - start + 1) |-> start + i - 1]

\* the number in the list item's text f"Page {p+1}", and
\* int(item_text.split()[1]) - 1
ItemLabel(p) == p + 1
ItemPage(label) == label - 1

Elems(seq) == {seq[i] : i \in 1..Len(seq)}

\* CropBox with the two cuts applied at the wrong ends: the top cut raises the
\* lower edge and the bottom cut lowers the upper edge
CropBox_CutsSwapped(box, t, b) ==
  LET x0 == FromCenti(box[1])
      y0 == FromCenti(box[2])
      x1 == FromCenti(box[3])
      y1 == FromCenti(box[4])
      height == FSub(y1, y0)
      top_cut_abs == FMul(FDivSmall(FromCenti(t), 100), height)
      bottom_cut_abs == FMul(FDivSmall(FromCenti(b), 100), height)
      new_y0 == FAdd(y0, top_cut_abs)
      new_y1 == FSub(y1, bottom_cut_abs)
  IN  <<x0, new_y0, x1,
        IF FLe(new_y1, new_y0) THEN FAdd(new_y0, FInt(1)) ELSE new_y1>>

(***************************************************************************)
(* export_pdf's crop computation for one page (lines 253-268): box is the  *)
(* mediabox and t, b the stored pair, all in hundredths; the result is the *)
(* list assigned to page.CropBox, four floats.                             *)
(***************************************************************************)
CropBox(box, t, b) ==
  LET x0 == FromCenti(box[1])
      y0 == FromCenti(box[2])
      x1 == FromCenti(box[3])
      y1 == FromCenti(box[4])
      height == FSub(y1, y0)
      top_cut_abs == FMul(FDivSmall(FromCenti(t), 100), height)
      bottom_cut_abs == FMul(FDivSmall(FromCenti(b), 100), height)
      new_y0 == FAdd(y0, bottom_cut_abs)
      new_y1 == FSub(y1, top_cut_abs)
  IN  <<x0, new_y0, x1,
        IF FLe(new_y1, new_y0) THEN FAdd(new_y0, FInt(1)) ELSE new_y1>>

\* CropBox over the boxes of the documents and the pairs the user can give,
\* computed once: the model checker looks a crop box up here instead of
\* redoing the float arithmetic in every state
TableInputs ==
  {<<MediaBox(path, p), t, b>> :
     path \in {q \in Paths : Opens(q)}, p \in 0..MaxSpin,
     t \in UserPcts, b \in UserPcts}

CropTable == {<<in, CropBox(in[1], in[2], in[3])>> : in \in TableInputs}

PageCropBox(box, t, b) ==
  IF <<box, t, b>> \in TableInputs
  THEN (CHOOSE entry \in CropTable : entry[1] = <<box, t, b>>)[2]
  ELSE CropBox(box, t, b)

\* the loop with each page put in front of the ones before it
\* (new_pdf.pages.insert(0, page) for append)
ExportLoop_Prepends(path, pages, trim) ==
  [i \in 1..Len(pages) |->
     [page |-> pages[Len(pages) + 1 - i],
      box  |-> PageCropBox(MediaBox(path, pages[Len(pages) + 1 - i]),
                           trim[pages[Len(pages) + 1 - i]][1],
                           trim[pages[Len(pages) + 1 - i]][2])]]

\* the loop of export_pdf over self.selected_pages: the pages appended to
\* new_pdf, each with the crop box set on it
ExportLoop(path, pages, trim) ==
  [i \in 1..Len(pages) |->
     [page |-> pages[i],
      box  |-> PageCropBox(MediaBox(path, pages[i]),
                           trim[pages[i]][1], trim[pages[i]][2])]]

\* pdf.pages[p] raises IndexError, or self.page_trim[p] KeyError
LoopRaises(path, pages, trim) ==
  \E i \in 1..Len(pages) :
     pages[i] >= PageCount(path) \/ pages[i] \notin DOMAIN trim

VARIABLES
  doc,              \* PDFTrimApp.doc: the fitz document (its path), or NoDoc
  pdf_path,         \* PDFTrimApp.pdf_path: the path export opens
  selected_pages,   \* PDFTrimApp.selected_pages: a list of page indices
  page_trim,        \* PDFTrimApp.page_trim: page index -> <<top, bottom>>
  current_page,     \* PDFTrimApp.current_page, or NoPage
  pages_list,       \* the list widget's items: the page number each shows
  top_cut_spin,     \* PagePreviewWidget.top_cut_spin's value
  bottom_cut_spin,  \* PagePreviewWidget.bottom_cut_spin's value
  preview_doc,      \* PagePreviewWidget.doc
  page_num,         \* PagePreviewWidget.page_num, or NoPage
  exported,         \* the pages the last handler handed to new_pdf.save
  last,             \* the last handler that ran, and how it ended
  edited,           \* history: the pair the user last gave each page
  crop_in,          \* CropSpec: the input of the crop computation
  crop_out          \* CropSpec: its result

vars == <<doc, pdf_path, selected_pages, page_trim, current_page, pages_list,
          top_cut_spin, bottom_cut_spin, preview_doc, page_num, exported,
          last, edited, crop_in, crop_out>>

appVars == <<doc, pdf_path, selected_pages, page_trim, current_page, pages_list,
             top_cut_spin, bottom_cut_spin, preview_doc, page_num, exported,
             last, edited>>

cropVars == <<crop_in, crop_out>>

\* an exception that leaves a slot ends the process (PyQt5 aborts)
Alive == last # "select_crashed"

NoCrop == [box |-> <<0, 0, 0, 0>>, t |-> 0, b |-> 0]
Pending == [status |-> "pending", box |-> <<>>]

\* PDFTrimApp.__init__ and PagePreviewWidget.__init__
AppInit ==
  /\ doc = NoDoc
  /\ pdf_path = NoDoc
  /\ selected_pages = <<>>
  /\ page_trim = [p \in {} |-> <<0, 0>>]
  /\ current_page = NoPage
  /\ pages_list = <<>>
  /\ top_cut_spin = 0
  /\ bottom_cut_spin = 0
  /\ preview_doc = NoDoc
  /\ page_num = NoPage
  /\ exported = <<>>
  /\ last = "init"
  /\ edited = [p \in {} |-> <<0, 0>>]

Init == AppInit /\ crop_in = NoCrop /\ crop_out = Pending


\* load_pages_range without self.page_trim.clear(): the entries of the old
\* range stay
LoadPagesRange_KeepsTrims(path, start_v, end_v) ==
  LET total_pages == PageCount(path)
      start == start_v - 1
      end   == end_v - 1
  IN  IF start < 0 \/ end < 0 \/ start > end \/ end >= total_pages
      THEN /\ last' = "load_invalid_range"
           /\ UNCHANGED <<selected_pages, page_trim, current_page,
                          pages_list, edited>>
      ELSE /\ page_trim' = [p \in DOMAIN page_trim \cup (start..end) |->
                              IF p \in start..end THEN <<0, 0>> ELSE page_trim[p]]
           /\ selected_pages' = RangeList(start, end)
           /\ current_page' = NoPage
           /\ pages_list' = [i \in 1..(end - start + 1) |->
                               ItemLabel(RangeList(start, end)[i])]
           /\ edited' = [p \in start..end |-> <<0, 0>>]
           /\ last' = "load_ok"

\* load_pages_range without self.current_page = None: the page of the old
\* range stays active
LoadPagesRange_KeepsActivePage(path, start_v, end_v) ==
  LET total_pages == PageCount(path)
      start == start_v - 1
      end   == end_v - 1
  IN  IF start < 0 \/ end < 0 \/ start > end \/ end >= total_pages
      THEN /\ last' = "load_invalid_range"
           /\ UNCHANGED <<selected_pages, page_trim, current_page,
                          pages_list, edited>>
      ELSE /\ page_trim' = [p \in start..end |-> <<0, 0>>]
           /\ selected_pages' = RangeList(start, end)
           /\ UNCHANGED current_page
           /\ pages_list' = [i \in 1..(end - start + 1) |->
                               ItemLabel(RangeList(start, end)[i])]
           /\ edited' = [p \in start..end |-> <<0, 0>>]
           /\ last' = "load_ok"

(***************************************************************************)
(* load_pages_range, called by load_pdf_and_pages with self.doc = path     *)
(* already assigned: start_v and end_v are the values of the two spin      *)
(* boxes.  refresh_pages_list is part of it.                               *)
(***************************************************************************)
LoadPagesRange(path, start_v, end_v) ==
  LET total_pages == PageCount(path)
      start == start_v - 1
      end   == end_v - 1
  IN  IF start < 0 \/ end < 0 \/ start > end \/ end >= total_pages
      THEN /\ last' = "load_invalid_range"
           /\ UNCHANGED <<selected_pages, page_trim, current_page,
                          pages_list, edited>>
      ELSE /\ page_trim' = [p \in start..end |-> <<0, 0>>]
           /\ selected_pages' = RangeList(start, end)
           /\ current_page' = NoPage
           /\ pages_list' = [i \in 1..(end - start + 1) |->
                               ItemLabel(RangeList(start, end)[i])]
           /\ edited' = [p \in start..end |-> <<0, 0>>]
           /\ last' = "load_ok"

\* The Load button: load_pdf_and_pages with `path` in the path field
LoadPdfAndPages(path, start_v, end_v) ==
  /\ Alive
  /\ IF ~Exists(path)
     THEN /\ last' = "load_missing"
          /\ UNCHANGED <<doc, pdf_path, selected_pages, page_trim,
                         current_page, pages_list, edited>>
     ELSE IF ~Opens(path)
     THEN /\ doc' = NoDoc
          /\ last' = "load_open_failed"
          /\ UNCHANGED <<pdf_path, selected_pages, page_trim, current_page,
                         pages_list, edited>>
     ELSE /\ doc' = path
          /\ pdf_path' = path
          /\ LoadPagesRange(path, start_v, end_v)
  /\ exported' = <<>>
  /\ UNCHANGED <<top_cut_spin, bottom_cut_spin, preview_doc, page_num>>
  /\ UNCHANGED cropVars

\* the save of the live cuts left out
Flush_Skipped(trim, cur, top, bottom) == trim

\* self.page_trim[self.current_page] = self.preview_widget.get_cuts(),
\* done when a page is active
Flush(trim, cur, top, bottom) ==
  IF cur # NoPage THEN Put(trim, cur, <<top, bottom>>) ELSE trim

\* The user selects item i of the list: page_selected
PageSelected(i) ==
  /\ Alive
  /\ i \in 1..Len(pages_list)
  /\ IF doc = NoDoc
     THEN /\ last' = "select_ignored"
          /\ UNCHANGED <<page_trim, current_page, top_cut_spin,
                         bottom_cut_spin, preview_doc, page_num>>
     ELSE LET saved == Flush(page_trim, current_page,
                             top_cut_spin, bottom_cut_spin)
              new_page == ItemPage(pages_list[i])
              cuts == Get(saved, new_page, <<0, 0>>)
          IN  /\ page_trim' = saved
              \* PagePreviewWidget.load_page
              /\ preview_doc' = doc
              /\ page_num' = new_page
              /\ top_cut_spin' = SetValue(cuts[1])
              /\ bottom_cut_spin' = SetValue(cuts[2])
              \* render_page: doc.load_page raises for a page the document
              \* does not have, and the exception leaves the slot
              /\ IF new_page >= PageCount(doc)
                 THEN /\ last' = "select_crashed"
                      /\ UNCHANGED current_page
                 ELSE /\ current_page' = new_page
                      /\ last' = "selected"
  /\ exported' = <<>>
  /\ UNCHANGED <<doc, pdf_path, selected_pages, pages_list, edited>>
  /\ UNCHANGED cropVars

\* The user gives the top cut spin box the value v
SetTopCut(v) ==
  /\ Alive
  /\ top_cut_spin' = SetValue(v)
  /\ edited' = IF current_page \in DOMAIN edited
               THEN [edited EXCEPT ![current_page][1] = v] ELSE edited
  /\ last' = "top_cut_set"
  /\ exported' = <<>>
  /\ UNCHANGED <<doc, pdf_path, selected_pages, page_trim, current_page,
                 pages_list, bottom_cut_spin, preview_doc, page_num>>
  /\ UNCHANGED cropVars

\* The user gives the bottom cut spin box the value v
SetBottomCut(v) ==
  /\ Alive
  /\ bottom_cut_spin' = SetValue(v)
  /\ edited' = IF current_page \in DOMAIN edited
               THEN [edited EXCEPT ![current_page][2] = v] ELSE edited
  /\ last' = "bottom_cut_set"
  /\ exported' = <<>>
  /\ UNCHANGED <<doc, pdf_path, selected_pages, page_trim, current_page,
                 pages_list, top_cut_spin, preview_doc, page_num>>
  /\ UNCHANGED cropVars

\* export_pdf that starts the store afresh once the file is written
ExportPdf_ClearsTrims(io_ok) ==
  /\ Alive
  /\ IF selected_pages = <<>>
     THEN /\ last' = "export_no_pages"
          /\ exported' = <<>>
          /\ UNCHANGED page_trim
     ELSE LET saved == Flush(page_trim, current_page,
                             top_cut_spin, bottom_cut_spin)
          IN  IF io_ok /\ ~LoopRaises(pdf_path, selected_pages, saved)
              THEN /\ exported' = ExportLoop(pdf_path, selected_pages, saved)
                   /\ page_trim' = [p \in DOMAIN saved |-> <<0, 0>>]
                   /\ last' = "export_ok"
              ELSE /\ exported' = <<>>
                   /\ page_trim' = saved
                   /\ last' = "export_failed"
  /\ UNCHANGED <<doc, pdf_path, selected_pages, current_page, pages_list,
                 top_cut_spin, bottom_cut_spin, preview_doc, page_num, edited>>
  /\ UNCHANGED cropVars

(***************************************************************************)
(* The Export button: export_pdf.  io_ok says whether Pdf.open, the save   *)
(* and the clipboard copy succeed; every exception in the try block ends   *)
(* in the "Failed to export PDF" message.                                  *)
(***************************************************************************)
ExportPdf(io_ok) ==
  /\ Alive
  /\ IF selected_pages = <<>>
     THEN /\ last' = "export_no_pages"
          /\ exported' = <<>>
          /\ UNCHANGED page_trim
     ELSE LET saved == Flush(page_trim, current_page,
                             top_cut_spin, bottom_cut_spin)
          IN  /\ page_trim' = saved
              /\ IF io_ok /\ ~LoopRaises(pdf_path, selected_pages, saved)
                 THEN /\ exported' = ExportLoop(pdf_path, selected_pages, saved)
                      /\ last' = "export_ok"
                 ELSE /\ exported' = <<>>
                      /\ last' = "export_failed"
  /\ UNCHANGED <<doc, pdf_path, selected_pages, current_page, pages_list,
                 top_cut_spin, bottom_cut_spin, preview_doc, page_num, edited>>
  /\ UNCHANGED cropVars

Next ==
  \/ \E path \in Paths, start_v \in 1..MaxSpin, end_v \in 1..MaxSpin :
        LoadPdfAndPages(path, start_v, end_v)
  \/ \E i \in 1..MaxSpin : PageSelected(i)
  \/ \E v \in UserPcts : SetTopCut(v)
  \/ \E v \in UserPcts : SetBottomCut(v)
  \/ \E io_ok \in BOOLEAN : ExportPdf(io_ok)

Spec == Init /\ [][Next]_vars

(***************************************************************************)
(* C1.  Within a loaded range the pair the user gave a page survives       *)
(* navigation: whenever a page is active, the values the widget shows for  *)
(* it are the pair the user last gave that page ((0,0) if none), so        *)
(* selecting Q and then P again loads P's edited pair, neither the default *)
(* nor Q's; and the entry stored for every other page is the pair last     *)
(* given to that page, untouched by the edits of the active one.           *)
(***************************************************************************)
C1_EditsSurviveNavigation ==
  Alive =>
    /\ current_page # NoPage =>
         <<top_cut_spin, bottom_cut_spin>> = edited[current_page]
    /\ \A q \in DOMAIN edited \ {current_page} :
         q \in DOMAIN page_trim /\ page_trim[q] = edited[q]

\* P was edited, another page Q was visited and edited to a different pair,
\* and P has just been selected again
C1_Witness ==
  /\ last = "selected"
  /\ current_page # NoPage
  /\ edited[current_page] # <<0, 0>>
  /\ <<top_cut_spin, bottom_cut_spin>> = edited[current_page]
  /\ \E q \in DOMAIN edited :
        /\ q # current_page
        /\ edited[q] # <<0, 0>>
        /\ edited[q] # edited[current_page]

(***************************************************************************)
(* C2.  An export made while a page is active writes the widget's live     *)
(* pair to the store before any crop box is computed: after a successful   *)
(* export the active page's entry is the live pair and the crop box        *)
(* exported for that page is the one computed from the live pair.          *)
(***************************************************************************)
C2_ExportUsesLiveCuts ==
  (last = "export_ok" /\ current_page # NoPage) =>
     /\ page_trim[current_page] = <<top_cut_spin, bottom_cut_spin>>
     /\ \E i \in 1..Len(exported) : exported[i].page = current_page
     /\ \A i \in 1..Len(exported) :
          exported[i].page = current_page =>
            exported[i].box = CropBox(MediaBox(pdf_path, current_page),
                                      top_cut_spin, bottom_cut_spin)

\* the active page was exported with a non-default live pair
C2_Witness ==
  /\ last = "export_ok"
  /\ current_page # NoPage
  /\ <<top_cut_spin, bottom_cut_spin>> = <<1000, 0>>
  /\ \E i \in 1..Len(exported) :
        /\ exported[i].page = current_page
        /\ exported[i].box # CropBox(MediaBox(pdf_path, current_page), 0, 0)

(***************************************************************************)
(* C3.  After a successful range load the store maps every page of the new *)
(* range to (0,0) and holds no other entry, so every page reads back as    *)
(* (0,0), and no page is active; an export made before any page is         *)
(* selected computes every crop box from (0,0), whatever the widget shows. *)
(***************************************************************************)
C3_LoadResetsStore ==
  /\ last = "load_ok" =>
       /\ selected_pages # <<>>
       /\ DOMAIN page_trim = Elems(selected_pages)
       /\ \A p \in 0..MaxSpin : Get(page_trim, p, <<0, 0>>) = <<0, 0>>
       /\ current_page = NoPage
  /\ (last = "export_ok" /\ current_page = NoPage) =>
       /\ \A p \in 0..MaxSpin : Get(page_trim, p, <<0, 0>>) = <<0, 0>>
       /\ \A i \in 1..Len(exported) :
            exported[i].box =
              CropBox(MediaBox(pdf_path, exported[i].page), 0, 0)

\* an export after a reload, with the widget still showing a page of the old
\* range and a non-zero cut
C3_Witness ==
  /\ last = "export_ok"
  /\ current_page = NoPage
  /\ page_num # NoPage
  /\ top_cut_spin # 0
  /\ Len(exported) > 1

(***************************************************************************)
(* C4.  A Load whose page range is invalid changes nothing: the store, the *)
(* selected pages, the active page and the open document (the handle and   *)
(* the path export reads) are as they were before the request.             *)
(***************************************************************************)
C4_InvalidRangeChangesNothing ==
  [][last' = "load_invalid_range" =>
       UNCHANGED <<page_trim, selected_pages, current_page, doc, pdf_path>>]_vars

(***************************************************************************)
(* C5.  A successful export hands over exactly one entry per page of the   *)
(* selected range [start, end], in ascending page order: start, start + 1, *)
(* ..., end, whatever pages were visited or edited.                        *)
(***************************************************************************)
C5_ExportInRangeOrder ==
  last = "export_ok" =>
     LET start == selected_pages[1]
         end   == selected_pages[Len(selected_pages)]
     IN  /\ Len(exported) = end - start + 1
         /\ \A i \in 1..Len(exported) : exported[i].page = start + i - 1
         /\ Elems(selected_pages) = start..end

\* a range of three pages exported after its last page was edited and its
\* first page then selected
C5_Witness ==
  /\ last = "export_ok"
  /\ Len(exported) = 3
  /\ current_page = selected_pages[1]
  /\ edited[selected_pages[3]] # <<0, 0>>

(***************************************************************************)
(* C8.  Export never clears the store, whether it succeeds or fails: it    *)
(* leaves the selected pages and the active page alone and changes the     *)
(* store only by writing the live pair to the active page's entry.  So an  *)
(* export right after a successful export yields the same pages and crop   *)
(* boxes, and an export right after a failed one starts from the same      *)
(* store.                                                                  *)
(***************************************************************************)
ExportOutcomes == {"export_ok", "export_failed", "export_no_pages"}

C8_ExportKeepsStore ==
  [][last' \in ExportOutcomes =>
       /\ selected_pages' = selected_pages
       /\ current_page' = current_page
       /\ page_trim' = IF selected_pages # <<>> /\ current_page # NoPage
                       THEN [page_trim EXCEPT ![current_page] =
                                <<top_cut_spin, bottom_cut_spin>>]
                       ELSE page_trim
       /\ (last = "export_ok" /\ last' = "export_ok") => exported' = exported
       /\ (last \in ExportOutcomes) => page_trim' = page_trim]_vars

\* a failed export that left an edited store behind
C8_Witness ==
  /\ last = "export_failed"
  /\ \E p \in DOMAIN page_trim : page_trim[p] # <<0, 0>>
  /\ \E p \in DOMAIN page_trim : page_trim[p] = <<0, 0>>

(***************************************************************************)
(* C10.  In every reachable state the keys of the store are exactly the    *)
(* pages of the selected range and the active page is unset or one of      *)
(* them; so export finds an entry for every selected page and a flush      *)
(* never creates an entry outside the range.                               *)
(***************************************************************************)
C10_StoreKeysAreRange ==
  /\ DOMAIN page_trim = Elems(selected_pages)
  /\ current_page \in Elems(selected_pages) \cup {NoPage}
  /\ selected_pages # <<>> =>
       Elems(selected_pages) =
         selected_pages[1]..selected_pages[Len(selected_pages)]

\* after a load, a selection, an edit and an export of a range that is not
\* the first one loaded
C10_Witness ==
  /\ last = "export_ok"
  /\ current_page # NoPage
  /\ page_trim[current_page] # <<0, 0>>
  /\ selected_pages[1] > 0
  /\ Len(selected_pages) > 1

(***************************************************************************)
(* The crop computation on its own: one pass of export_pdf's loop body for *)
(* a page whose mediabox is crop_in.box and whose stored pair is           *)
(* (crop_in.t, crop_in.b).  The body has no failing path of its own: it    *)
(* always assigns a crop box.                                              *)
(***************************************************************************)
\* mediaboxes, in hundredths of a point: two of positive height starting at
\* 0, one with an offset origin, one of height 0 and one upside down
CropBoxes ==
  { <<0, 0, 10000, 20000>>, <<0, 0, 59528, 84189>>, <<1000, 5000, 61200, 79200>>,
    <<0, 20000, 10000, 20000>>, <<0, 20000, 10000, 0>> }

\* spin box values, in hundredths of a percent
CropPcts == {0, 1, 743, 1000, 2000, 5000, 6000, 9257, 9990}

CropInputs == [box : CropBoxes, t : CropPcts, b : CropPcts]

CropInit == AppInit /\ crop_in \in CropInputs /\ crop_out = Pending

CropCompute ==
  /\ crop_out.status = "pending"
  /\ crop_out' = [status |-> "box",
                  box    |-> CropBox(crop_in.box, crop_in.t, crop_in.b)]
  /\ UNCHANGED crop_in
  /\ UNCHANGED appVars

CropNext == CropCompute

CropSpec == CropInit /\ [][CropNext]_vars

(***************************************************************************)
(* Comparing a float with an exact fraction.                               *)
(***************************************************************************)
\* |f - num/den| <= 2^-30, for integers num and den > 0
NearRat(f, num, den) ==
  LET up   == IF f.e > 0 THEN f.e ELSE 0
      down == IF f.e < 0 THEN -f.e ELSE 0
      a    == BMul(BShl(f.m, up), BFromNat(den))
      b    == BShl(BFromNat(IF num < 0 THEN -num ELSE num), down)
      same == (f.s = 1) = (num < 0)
      diff == IF a = <<>> \/ b = <<>> \/ ~same THEN BAdd(a, b)
              ELSE IF BCmp(a, b) >= 0 THEN BSub(a, b) ELSE BSub(b, a)
  IN  BCmp(BShl(diff, 30), BShl(BFromNat(den), down)) <= 0

CropHeight == crop_in.box[4] - crop_in.box[2]

Computed == crop_out.status # "pending"

(***************************************************************************)
(* C6.  For a box of positive height H and a pair (t, b) with t + b < 100, *)
(* the crop box is (x0, y0 + (b/100)*H, x1, y1 - (t/100)*H): x0 and x1 are *)
(* the box's own, the two edges and the new height H * (1 - (t+b)/100) are *)
(* met within floating-point tolerance (2^-30), and box (0,0,100,200) with *)
(* (10,20) gives exactly (0,40,100,180).                                   *)
(***************************************************************************)
C6_Example == [box |-> <<0, 0, 10000, 20000>>, t |-> 1000, b |-> 2000]

C6_CropFollowsCuts ==
  (Computed /\ CropHeight > 0 /\ crop_in.t + crop_in.b < 10000) =>
     LET box == crop_in.box
         out == crop_out.box
     IN  /\ crop_out.status = "box"
         /\ out[1] = FromCenti(box[1])
         /\ out[3] = FromCenti(box[3])
         /\ NearRat(out[2], box[2] * 10000 + crop_in.b * CropHeight, 1000000)
         /\ NearRat(out[4], box[4] * 10000 - crop_in.t * CropHeight, 1000000)
         /\ NearRat(FSub(out[4], out[2]),
                    CropHeight * (10000 - crop_in.t - crop_in.b), 1000000)
         /\ (crop_in = C6_Example =>
               out = <<FInt(0), FInt(40), FInt(100), FInt(180)>>)

C6_Witness ==
  /\ crop_in = C6_Example
  /\ crop_out = [status |-> "box",
                 box |-> <<FInt(0), FInt(40), FInt(100), FInt(180)>>]

(***************************************************************************)
(* C7.  For a box of positive height and a pair with t + b >= 100, t + b = *)
(* 100 included, the clamp fires: the lower edge is y0 + (b/100)*H (within *)
(* tolerance) and the upper edge is the lower edge plus 1.                 *)
(***************************************************************************)
C7_ClampFiresFrom100 ==
  (Computed /\ CropHeight > 0 /\ crop_in.t + crop_in.b >= 10000) =>
     LET out == crop_out.box
     IN  /\ crop_out.status = "box"
         /\ NearRat(out[2],
                    crop_in.box[2] * 10000 + crop_in.b * CropHeight, 1000000)
         /\ out[4] = FAdd(out[2], FInt(1))

\* what the code does keep: the clamp fires whenever t + b > 100, and the
\* example (60,50) on (0,0,100,200) gives (0,100,100,101)
C7_ClampFiresAbove100 ==
  /\ (Computed /\ CropHeight > 0 /\ crop_in.t + crop_in.b > 10000) =>
        crop_out.box[4] = FAdd(crop_out.box[2], FInt(1))
  /\ (Computed /\ crop_in = [box |-> <<0, 0, 10000, 20000>>,
                             t |-> 6000, b |-> 5000]) =>
        crop_out.box = <<FInt(0), FInt(100), FInt(100), FInt(101)>>

(***************************************************************************)
(* C9.  The crop computation fails with DegenerateGeometry exactly when    *)
(* the box has non-positive height (y1 <= y0); for such a box no crop box  *)
(* is produced.                                                            *)
(***************************************************************************)
C9_FailsOnDegenerateBox ==
  Computed => (crop_out.status = "DegenerateGeometry" <=> CropHeight <= 0)
====
